---- MODULE Spec2Model ----
(***************************************************************************)
(* SoilPy: the layered soil-profile stress engine (models/soil_profile.py) *)
(* and the test-data idealization engine (models/cpt.py, models/spt.py,    *)
(* models/point_load_test.py, models/masw.py).                             *)
(*                                                                         *)
(* Numbers.  The Python code works on floats; the model works on exact     *)
(* integers in fixed units:                                                *)
(*   - lengths (thickness, depth, center, ground water level, query depth) *)
(*     are whole multiples of one length unit, and every thickness is an   *)
(*     even multiple, so thickness / 2.0 is exact;                         *)
(*   - unit weights are in thousandths of t/m3 (1.0 is 1000, the water     *)
(*     weight 0.981 is 981), so a stress is in thousandths of t/m3 times   *)
(*     the length unit;                                                    *)
(*   - a mean is kept as an exact fraction in lowest terms.                *)
(* An Optional field that is None holds the value None below.              *)
(***************************************************************************)
EXTENDS Integers, Sequences, FiniteSets, TLC

VARIABLES
    layers,              \* SoilProfile.layers: sequence of SoilLayer records
    ground_water_level,  \* SoilProfile.ground_water_level (None when unset)
    fresh,               \* ghost: no thickness changed since calc_layer_depths last returned
    op,                  \* the operation that ran last
    arg,                 \* its argument (a query depth), None when it takes none
    ret,                 \* its return value, None when it returns none or raised
    raised,              \* whether it raised
    kind,                \* the class of the object under test
    exps,                \* the collection's experiments (CPT.exps, SPT.exps, PointLoadTest.exps)
    idealization_method  \* the collection's idealization_method

vars == <<layers, ground_water_level, fresh, op, arg, ret, raised,
          kind, exps, idealization_method>>
profileVars == <<layers, ground_water_level, fresh>>
expVars == <<kind, exps, idealization_method>>

\* ------------------------------------------------------------------ bounds
MaxLayers == 2
MaxDepth == 5

\* ------------------------------------------------------- program constants
None == -1000
WeightOne == 1000
WaterUnitWeight == 981

\* ------------------------------------------------------------ input domains
Thicknesses == {2, 4}
UnitWeightPairs ==
    { <<1800, 2000>>, <<1800, None>>, <<None, 2000>>, <<1000, None>> }
GroundWaterLevels == {None, 0 - 2, 0, 3, MaxDepth + 1}
QueryDepths == (0 - 2)..MaxDepth

RECURSIVE SeqsUpTo(_, _)
SeqsUpTo(S, n) ==
    IF n = 0 THEN { <<>> }
    ELSE LET shorter == SeqsUpTo(S, n - 1)
         IN  shorter \cup { Append(s, x) : s \in {t \in shorter : Len(t) = n - 1}, x \in S }

\* ------------------------------------------------------------- SoilLayer
SoilLayer(thickness, dry, sat) ==
    [ thickness |-> thickness,
      dry_unit_weight |-> dry,
      saturated_unit_weight |-> sat,
      depth |-> None,
      center |-> None ]

RawLayers ==
    { SoilLayer(t, w[1], w[2]) : t \in Thicknesses, w \in UnitWeightPairs }

\* ---------------------------------------------- SoilProfile.calc_layer_depths
RECURSIVE calc_layer_depths_loop(_, _, _)
calc_layer_depths_loop(ls, i, bottom) ==
    IF i > Len(ls) THEN [layers |-> ls, raised |-> FALSE]
    ELSE IF ls[i].thickness = None THEN [layers |-> ls, raised |-> TRUE]
    ELSE calc_layer_depths_loop(
             [ls EXCEPT ![i].center = bottom + (ls[i].thickness \div 2),
                        ![i].depth = bottom + ls[i].thickness],
             i + 1,
             bottom + ls[i].thickness)

\* calc_layer_depths with the halving of the thickness forgotten in the center
RECURSIVE calc_layer_depths_loop_nohalf(_, _, _)
calc_layer_depths_loop_nohalf(ls, i, bottom) ==
    IF i > Len(ls) THEN [layers |-> ls, raised |-> FALSE]
    ELSE IF ls[i].thickness = None THEN [layers |-> ls, raised |-> TRUE]
    ELSE calc_layer_depths_loop_nohalf(
             [ls EXCEPT ![i].center = bottom + ls[i].thickness,
                        ![i].depth = bottom + ls[i].thickness],
             i + 1,
             bottom + ls[i].thickness)

calc_layer_depths_nohalf(ls) == calc_layer_depths_loop_nohalf(ls, 1, 0)

calc_layer_depths(ls) == calc_layer_depths_loop(ls, 1, 0)

\* ------------------------------------------------ SoilProfile.get_layer_index
\* The index is the code's 0-based index; layers[k] of the code is ls[k + 1].
RECURSIVE get_layer_index_scan(_, _, _)
get_layer_index_scan(ls, depth, i) ==
    IF i >= Len(ls) THEN Len(ls) - 1
    ELSE IF ls[i + 1].depth # None /\ ls[i + 1].depth >= depth THEN i
    ELSE get_layer_index_scan(ls, depth, i + 1)

\* get_layer_index comparing with > instead of >=
get_layer_index_strict(ls, depth) ==
    LET hits == { i \in 0..(Len(ls) - 1) : ls[i + 1].depth # None /\ ls[i + 1].depth > depth }
    IN  IF hits = {} THEN Len(ls) - 1
        ELSE CHOOSE i \in hits : \A j \in hits : i <= j

get_layer_index(ls, depth) == get_layer_index_scan(ls, depth, 0)

\* Python's list[index]: a negative index counts from the end, and an index
\* outside the list raises IndexError.
PyIndexRaises(s, index) == index >= Len(s) \/ index < 0 - Len(s)
PyIndex(s, index) == IF index >= 0 THEN s[index + 1] ELSE s[Len(s) + index + 1]

\* --------------------------------------------- SoilProfile.get_layer_at_depth
get_layer_at_depth(ls, depth) ==
    LET index == get_layer_index(ls, depth)
    IN  IF PyIndexRaises(ls, index) THEN [raised |-> TRUE, value |-> None]
        ELSE [raised |-> FALSE, value |-> PyIndex(ls, index)]

\* --------------------------------------------- SoilProfile.calc_normal_stress
\* `x or 0.0`
OrZero(x) == IF x = None \/ x = 0 THEN 0 ELSE x

\* the stress one layer adds: the three branches on the water table
\* (layer_stress_unsplit: a layer the water table crosses is taken as submerged)
layer_stress_unsplit(dry_unit_weight, saturated_unit_weight, gwt, previous_depth, layer_thickness) ==
    IF gwt >= previous_depth + layer_thickness
      THEN dry_unit_weight * layer_thickness
    ELSE saturated_unit_weight * layer_thickness

layer_stress(dry_unit_weight, saturated_unit_weight, gwt, previous_depth, layer_thickness) ==
    IF gwt >= previous_depth + layer_thickness
      THEN dry_unit_weight * layer_thickness
    ELSE IF gwt <= previous_depth
      THEN saturated_unit_weight * layer_thickness
    ELSE LET dry_thickness == gwt - previous_depth
             submerged_thickness == layer_thickness - dry_thickness
         IN  dry_unit_weight * dry_thickness
             + saturated_unit_weight * submerged_thickness

RECURSIVE normal_stress_loop(_, _, _, _, _, _, _)
normal_stress_loop(ls, gwt, depth, layer_index, i, total_stress, previous_depth) ==
    IF i > layer_index \/ i >= Len(ls) THEN [raised |-> FALSE, value |-> total_stress]
    ELSE
      LET layer == ls[i + 1]
          layer_thickness ==
              IF i = layer_index THEN depth - previous_depth ELSE layer.thickness
          dry_unit_weight == OrZero(layer.dry_unit_weight)
          saturated_unit_weight == OrZero(layer.saturated_unit_weight)
          added ==
              layer_stress(dry_unit_weight, saturated_unit_weight, gwt,
                           previous_depth, layer_thickness)
      IN  IF layer.thickness = None THEN [raised |-> TRUE, value |-> None]
          ELSE IF dry_unit_weight <= WeightOne /\ saturated_unit_weight <= WeightOne
            THEN [raised |-> TRUE, value |-> None]
          ELSE normal_stress_loop(ls, gwt, depth, layer_index, i + 1,
                                  total_stress + added,
                                  previous_depth + layer_thickness)

\* calc_normal_stress with the water level tested for truth (`if not gwt`), so that
\* a level of 0.0 counts as unset
calc_normal_stress_falsy_gwt(ls, gwt, depth) ==
    IF gwt = None \/ gwt = 0 THEN [raised |-> TRUE, value |-> None]
    ELSE normal_stress_loop(ls, gwt, depth, get_layer_index(ls, depth), 0, 0, 0)

calc_normal_stress(ls, gwt, depth) ==
    IF gwt = None THEN [raised |-> TRUE, value |-> None]
    ELSE normal_stress_loop(ls, gwt, depth, get_layer_index(ls, depth), 0, 0, 0)

\* ------------------------------------------ SoilProfile.calc_effective_stress
\* calc_effective_stress with the pore pressure measured from the surface
calc_effective_stress_from_surface(ls, gwt, depth) ==
    IF gwt = None THEN [raised |-> TRUE, value |-> None]
    ELSE LET normal_stress == calc_normal_stress(ls, gwt, depth)
         IN  IF normal_stress.raised THEN normal_stress
             ELSE IF gwt >= depth THEN normal_stress
             ELSE [raised |-> FALSE,
                   value |-> normal_stress.value - depth * WaterUnitWeight]

calc_effective_stress(ls, gwt, depth) ==
    IF gwt = None THEN [raised |-> TRUE, value |-> None]
    ELSE LET normal_stress == calc_normal_stress(ls, gwt, depth)
         IN  IF normal_stress.raised THEN normal_stress
             ELSE IF gwt >= depth THEN normal_stress
             ELSE [raised |-> FALSE,
                   value |-> normal_stress.value - (depth - gwt) * WaterUnitWeight]

\* ------------------------------------------------------------------ actions
\* SoilProfile(layers=..., ground_water_level=...): model_post_init runs
\* calc_layer_depths when the list is not empty.  Every constructed layer has
\* its thickness set, so construction does not raise.
model_post_init(raw) == IF raw # <<>> THEN calc_layer_depths(raw).layers ELSE raw

Init ==
    /\ layers \in { model_post_init(raw) : raw \in SeqsUpTo(RawLayers, MaxLayers) }
    /\ ground_water_level \in GroundWaterLevels
    /\ fresh = TRUE
    /\ op = "new"
    /\ arg = None
    /\ ret = None
    /\ raised = FALSE
    /\ kind = "SoilProfile"
    /\ exps = <<>>
    /\ idealization_method = "Avg"

\* profile.layers[i].thickness = t  (a caller's edit; depths become stale)
EditThickness(i, t) ==
    /\ layers[i].thickness # t
    /\ layers' = [layers EXCEPT ![i].thickness = t]
    /\ fresh' = FALSE
    /\ op' = "set_thickness"
    /\ arg' = None
    /\ ret' = None
    /\ raised' = FALSE
    /\ UNCHANGED <<ground_water_level, expVars>>

SetThickness == \E i \in 1..Len(layers), t \in Thicknesses : EditThickness(i, t)

\* profile.layers[i].thickness = None
ClearThickness == \E i \in 1..Len(layers) : EditThickness(i, None)

CalcLayerDepths ==
    LET r == calc_layer_depths(layers)
    IN  /\ layers' = r.layers
        /\ raised' = r.raised
        /\ fresh' = IF r.raised THEN fresh ELSE TRUE
        /\ op' = "calc_layer_depths"
        /\ arg' = None
        /\ ret' = None
        /\ UNCHANGED <<ground_water_level, expVars>>

GetLayerIndex ==
    \E depth \in QueryDepths :
        /\ op' = "get_layer_index"
        /\ arg' = depth
        /\ ret' = get_layer_index(layers, depth)
        /\ raised' = FALSE
        /\ UNCHANGED <<profileVars, expVars>>

GetLayerAtDepth ==
    \E depth \in QueryDepths :
        LET r == get_layer_at_depth(layers, depth)
        IN  /\ op' = "get_layer_at_depth"
            /\ arg' = depth
            /\ ret' = r.value
            /\ raised' = r.raised
            /\ UNCHANGED <<profileVars, expVars>>

CalcNormalStress ==
    \E depth \in QueryDepths :
        LET r == calc_normal_stress(layers, ground_water_level, depth)
        IN  /\ op' = "calc_normal_stress"
            /\ arg' = depth
            /\ ret' = r.value
            /\ raised' = r.raised
            /\ UNCHANGED <<profileVars, expVars>>

CalcEffectiveStress ==
    \E depth \in QueryDepths :
        LET r == calc_effective_stress(layers, ground_water_level, depth)
        IN  /\ op' = "calc_effective_stress"
            /\ arg' = depth
            /\ ret' = r.value
            /\ raised' = r.raised
            /\ UNCHANGED <<profileVars, expVars>>

Next ==
    \/ SetThickness
    \/ CalcLayerDepths
    \/ GetLayerIndex
    \/ CalcNormalStress
    \/ CalcEffectiveStress

Spec == Init /\ [][Next]_vars

\* The depth bookkeeping alone: profiles of ordinary layers, every thickness
\* edit including unsetting one, so that calc_layer_depths can raise.
InitDepths ==
    /\ layers \in { model_post_init(raw) :
                       raw \in SeqsUpTo({ SoilLayer(t, 1800, 2000) : t \in Thicknesses },
                                        MaxLayers) }
    /\ ground_water_level = 3
    /\ fresh = TRUE
    /\ op = "new"
    /\ arg = None
    /\ ret = None
    /\ raised = FALSE
    /\ kind = "SoilProfile"
    /\ exps = <<>>
    /\ idealization_method = "Avg"

NextDepths ==
    \/ SetThickness
    \/ ClearThickness
    \/ CalcLayerDepths
    \/ GetLayerIndex
    \/ GetLayerAtDepth
    \/ CalcNormalStress

SpecDepths == InitDepths /\ [][NextDepths]_vars

\* ====================================================== experiment containers
\* Channel values (cone resistance, is50, ...) are Python floats.  The model keeps
\* them as integers counted in 1/ValueScale of the channel's unit, and every
\* source value is a whole number of units; ValueScale is the least common
\* multiple of 1..MaxExps, so the mean of up to MaxExps source values is exact.
MaxExps == 2
MaxRecs == 2

RECURSIVE GCD(_, _)
GCD(a, b) == IF b = 0 THEN a ELSE GCD(b, a % b)
RECURSIVE LcmUpTo(_)
LcmUpTo(n) == IF n <= 1 THEN 1 ELSE (LcmUpTo(n - 1) * n) \div GCD(LcmUpTo(n - 1), n)
ValueScale == LcmUpTo(MaxExps)
Whole(n) == n * ValueScale

NotNone(x) == x # None
RecordDepths == {1, 2, 3}

\* all sequences of at most n records with strictly increasing depths, the record
\* at depth d drawn from at[d]
RECURSIVE IncreasingSeqs(_, _, _)
IncreasingSeqs(at, n, above) ==
    IF n = 0 THEN { <<>> }
    ELSE { <<>> } \cup
         UNION { { <<r>> \o rest : r \in at[d], rest \in IncreasingSeqs(at, n - 1, d) }
                 : d \in { x \in RecordDepths : x > above } }

\* ------------------------------------------------------------------ CPTLayer
CPTLayer(depth, cone_resistance, sleeve_friction, pore_pressure, friction_ratio) ==
    [ depth |-> depth,
      cone_resistance |-> cone_resistance,
      sleeve_friction |-> sleeve_friction,
      pore_pressure |-> pore_pressure,
      friction_ratio |-> friction_ratio ]

CPTLayer_default == CPTLayer(None, None, None, None, None)
CPTLayer_new(depth, qc, fs, u2) == CPTLayer(depth, qc, fs, u2, None)

\* -------------------------------------------------------------------- CPTExp
\* CPTExp.new leaving the name at its default
CPTExp_new_unnamed(ls, name) == [ layers |-> ls, name |-> "" ]

CPTExp_new(ls, name) == [ layers |-> ls, name |-> name ]

CPTExp_add_layer(exp, layer) == [exp EXCEPT !.layers = Append(exp.layers, layer)]

RECURSIVE CPTExp_scan(_, _, _)
CPTExp_scan(ls, depth, i) ==
    IF i > Len(ls) THEN (IF Len(ls) > 0 THEN ls[Len(ls)] ELSE CPTLayer_default)
    ELSE IF ls[i].depth # None /\ ls[i].depth >= depth THEN ls[i]
    ELSE CPTExp_scan(ls, depth, i + 1)

\* CPTExp.get_layer_at_depth falling back to an empty layer instead of the last one
CPTExp_get_layer_at_depth_nolast(exp, depth) ==
    LET hits == { i \in 1..Len(exp.layers) :
                    exp.layers[i].depth # None /\ exp.layers[i].depth >= depth }
    IN  IF hits = {} THEN CPTLayer_default
        ELSE exp.layers[CHOOSE i \in hits : \A j \in hits : i <= j]

CPTExp_get_layer_at_depth(exp, depth) == CPTExp_scan(exp.layers, depth, 1)

\* ----------------------------------------------------------- PointLoadSample
\* Of the eight fields only depth, is50 and d are ever set by PointLoadSample.new
\* and read by the lookup and the idealization; the others stay None.
PointLoadSample(depth, is50, d) == [ depth |-> depth, is50 |-> is50, d |-> d ]

PointLoadSample_default == PointLoadSample(None, None, None)
PointLoadSample_new(depth, is50, d) == PointLoadSample(depth, is50, d)

\* -------------------------------------------------------------- PointLoadExp
PointLoadExp_new(borehole_id, samples) == [ borehole_id |-> borehole_id, samples |-> samples ]

PointLoadExp_add_sample(exp, sample) == [exp EXCEPT !.samples = Append(exp.samples, sample)]

RECURSIVE PointLoadExp_scan(_, _, _)
PointLoadExp_scan(samples, depth, i) ==
    IF i > Len(samples)
      THEN (IF Len(samples) > 0 THEN samples[Len(samples)] ELSE PointLoadSample_default)
    ELSE IF samples[i].depth # None /\ samples[i].depth >= depth THEN samples[i]
    ELSE PointLoadExp_scan(samples, depth, i + 1)

PointLoadExp_get_sample_at_depth(exp, depth) == PointLoadExp_scan(exp.samples, depth, 1)

\* ----------------------------------------------------------------- MaswLayer
MaswLayer(thickness, vs, vp, depth) ==
    [ thickness |-> thickness, vs |-> vs, vp |-> vp, depth |-> depth ]

MaswLayer_default == MaswLayer(None, None, None, None)

\* ------------------------------------------------------------------- MaswExp
RECURSIVE MaswExp_scan(_, _, _)
MaswExp_scan(ls, depth, i) ==
    IF i > Len(ls) THEN (IF Len(ls) > 0 THEN ls[Len(ls)] ELSE MaswLayer_default)
    ELSE IF ls[i].depth # None /\ ls[i].depth >= depth THEN ls[i]
    ELSE MaswExp_scan(ls, depth, i + 1)

MaswExp_get_layer_at_depth(exp, depth) == MaswExp_scan(exp.layers, depth, 1)

\* --------------------------------------------- one experiment and its lookups
\* Records in any stored order, a depth possibly unset; the second field tells
\* two records of one depth apart.
LookupDepths == RecordDepths \cup {None}
LookupCPTLayers ==
    { CPTLayer_new(d, Whole(q), None, None) : d \in LookupDepths, q \in {10, 20} }
LookupSamples ==
    { PointLoadSample_new(d, Whole(i), Whole(50)) : d \in LookupDepths, i \in {2, 3} }
LookupMaswLayers ==
    { MaswLayer(2, Whole(v), None, d) : d \in LookupDepths, v \in {180, 360} }

InitLookup ==
    /\ kind \in {"CPTExp", "PointLoadExp", "MaswExp"}
    /\ exps \in
         CASE kind = "CPTExp" -> { <<CPTExp_new(<<>>, "Exp")>> }
           [] kind = "PointLoadExp" -> { <<PointLoadExp_new("Exp", <<>>)>> }
           [] kind = "MaswExp" ->
                { <<[layers |-> ls, name |-> "Exp"]>> : ls \in SeqsUpTo(LookupMaswLayers, MaxRecs) }
    /\ idealization_method = "Avg"
    /\ layers = <<>>
    /\ ground_water_level = None
    /\ fresh = TRUE
    /\ op = "new"
    /\ arg = None
    /\ ret = None
    /\ raised = FALSE

AddLayer ==
    /\ kind = "CPTExp"
    /\ Len(exps[1].layers) < MaxRecs
    /\ \E layer \in LookupCPTLayers :
          exps' = <<CPTExp_add_layer(exps[1], layer)>>
    /\ op' = "add_layer"
    /\ arg' = None
    /\ ret' = None
    /\ raised' = FALSE
    /\ UNCHANGED <<profileVars, kind, idealization_method>>

AddSample ==
    /\ kind = "PointLoadExp"
    /\ Len(exps[1].samples) < MaxRecs
    /\ \E sample \in LookupSamples :
          exps' = <<PointLoadExp_add_sample(exps[1], sample)>>
    /\ op' = "add_sample"
    /\ arg' = None
    /\ ret' = None
    /\ raised' = FALSE
    /\ UNCHANGED <<profileVars, kind, idealization_method>>

CPTExpGetLayerAtDepth ==
    /\ kind = "CPTExp"
    /\ \E depth \in QueryDepths :
          /\ arg' = depth
          /\ ret' = CPTExp_get_layer_at_depth(exps[1], depth)
    /\ op' = "get_layer_at_depth"
    /\ raised' = FALSE
    /\ UNCHANGED <<profileVars, expVars>>

PointLoadExpGetSampleAtDepth ==
    /\ kind = "PointLoadExp"
    /\ \E depth \in QueryDepths :
          /\ arg' = depth
          /\ ret' = PointLoadExp_get_sample_at_depth(exps[1], depth)
    /\ op' = "get_sample_at_depth"
    /\ raised' = FALSE
    /\ UNCHANGED <<profileVars, expVars>>

MaswExpGetLayerAtDepth ==
    /\ kind = "MaswExp"
    /\ \E depth \in QueryDepths :
          /\ arg' = depth
          /\ ret' = MaswExp_get_layer_at_depth(exps[1], depth)
    /\ op' = "get_layer_at_depth"
    /\ raised' = FALSE
    /\ UNCHANGED <<profileVars, expVars>>

NextLookup ==
    \/ AddLayer
    \/ AddSample
    \/ CPTExpGetLayerAtDepth
    \/ PointLoadExpGetSampleAtDepth
    \/ MaswExpGetLayerAtDepth

SpecLookup == InitLookup /\ [][NextLookup]_vars

\* ==================================================== collections, idealization
\* Python's min/max/sum over a non-empty list; min and max keep the first of
\* equal elements.
RECURSIVE py_sum(_)
py_sum(values) == IF values = <<>> THEN 0 ELSE Head(values) + py_sum(Tail(values))

RECURSIVE py_min_from(_, _, _)
py_min_from(values, i, best) ==
    IF i > Len(values) THEN best
    ELSE py_min_from(values, i + 1, IF values[i] < best THEN values[i] ELSE best)
py_min(values) == py_min_from(values, 2, values[1])

RECURSIVE py_max_from(_, _, _)
py_max_from(values, i, best) ==
    IF i > Len(values) THEN best
    ELSE py_max_from(values, i + 1, IF values[i] > best THEN values[i] ELSE best)
py_max(values) == py_max_from(values, 2, values[1])

RECURSIVE py_sorted(_)
py_sorted(S) ==
    IF S = {} THEN <<>>
    ELSE LET least == CHOOSE x \in S : \A y \in S : x <= y
         IN  <<least>> \o py_sorted(S \ {least})

\* ----------------------------------------------------------------------- CPT
CPT_add_exp(es, exp) == Append(es, exp)

\* get_mode_value with the MIN and MAX rules exchanged
get_mode_value_swapped(values, mode) ==
    IF values = <<>> THEN 0
    ELSE IF mode = "Min" THEN py_max(values)
    ELSE IF mode = "Avg" THEN py_sum(values) \div Len(values)
    ELSE py_min(values)

get_mode_value(values, mode) ==
    IF values = <<>> THEN 0
    ELSE IF mode = "Min" THEN py_min(values)
    ELSE IF mode = "Avg" THEN py_sum(values) \div Len(values)
    ELSE py_max(values)

CPT_unique_depths(es) ==
    UNION { { es[e].layers[i].depth : i \in 1..Len(es[e].layers) } : e \in 1..Len(es) }
        \ {None}

CPT_layer_at(es, depth, mode) ==
    LET selected == [e \in 1..Len(es) |-> CPTExp_get_layer_at_depth(es[e], depth)]
        qc_at_depth == SelectSeq([e \in 1..Len(es) |-> selected[e].cone_resistance], NotNone)
        fs_at_depth == SelectSeq([e \in 1..Len(es) |-> selected[e].sleeve_friction], NotNone)
        u2_at_depth == SelectSeq([e \in 1..Len(es) |-> selected[e].pore_pressure], NotNone)
    IN  CPTLayer_new(depth,
                     get_mode_value(qc_at_depth, mode),
                     get_mode_value(fs_at_depth, mode),
                     get_mode_value(u2_at_depth, mode))

CPT_get_idealized_exp(es, mode, name) ==
    IF es = <<>> THEN CPTExp_new(<<>>, name)
    ELSE LET sorted_depths == py_sorted(CPT_unique_depths(es))
         IN  CPTExp_new([k \in 1..Len(sorted_depths) |->
                            CPT_layer_at(es, sorted_depths[k], mode)], name)

\* ------------------------------------------------------------------ depth_map
\* The dict depth_map of the SPT and Point-Load idealizations: a dict iterates in
\* the order its keys were first inserted, so it is a sequence of entries.
\* an append that opens a new entry even when the depth already has one
depth_map_append_nomerge(depth_map, depth, value) ==
    Append(depth_map, [depth |-> depth, values |-> <<value>>])

depth_map_append(depth_map, depth, value) ==
    LET at == { j \in 1..Len(depth_map) : depth_map[j].depth = depth }
    IN  IF at = {}
          THEN Append(depth_map, [depth |-> depth, values |-> <<value>>])
          ELSE LET j == CHOOSE x \in at : TRUE
               IN  [depth_map EXCEPT ![j].values = Append(@, value)]

\* -------------------------------------------------------------------- NValue
Refusal == 1000000

\* What NValue(value) is given: a str or an int.  Of a str only its upper-cased
\* text matters, of an int its value.
StrToken(text) == [is_str |-> TRUE, text |-> text, value |-> 0]
IntToken(value) == [is_str |-> FALSE, text |-> "", value |-> value]

str_upper(text) == IF text = "r" THEN "R" ELSE text

\* __init__: what was raised, and the _value the new NValue holds
NValue_init(token) ==
    IF token.is_str /\ str_upper(token.text) = "R"
      THEN [raised |-> FALSE, value |-> Refusal]
    ELSE IF ~token.is_str
      THEN [raised |-> FALSE, value |-> token.value]
    ELSE [raised |-> TRUE, value |-> None]

NValue_from_i32(n) ==
    IF n <= 0 THEN [raised |-> TRUE, value |-> None]
    ELSE NValue_init(IntToken(n))

\* to_i32 taking a zero count for a missing one
NValue_to_i32_falsy(n) == IF n = Refusal \/ n = 0 THEN 50 ELSE n

NValue_to_i32(n) == IF n = Refusal THEN 50 ELSE n

NValue_to_option(n) == IF n = Refusal THEN 50 ELSE n

\* A float factor or addend is a whole number of 1/FloatDen; products and sums
\* of such floats with small integers are exact in binary floating point.
FloatDen == 4

\* math.ceil of the fraction num / den, den > 0
math_ceil(num, den) == 0 - ((0 - num) \div den)

NValue_mul_by_f64(n, factor) ==
    IF n = Refusal THEN Refusal ELSE math_ceil(n * factor, FloatDen)

\* sum_with counting a Refusal as 50
NValue_sum_with_as_i32(n, other) == NValue_to_option(n) + NValue_to_option(other)

NValue_sum_with(n, other) ==
    IF n = Refusal \/ other = Refusal THEN Refusal ELSE n + other

NValue_add_f64(n, other) ==
    IF n = Refusal THEN Refusal ELSE math_ceil(n * FloatDen + other, FloatDen)

NValue_eq(a, b) == a = b
\* __lt__ comparing the to_i32 values, a Refusal as 50
NValue_lt_as_i32(a, b) == NValue_to_option(a) < NValue_to_option(b)

NValue_lt(a, b) ==
    IF a = Refusal /\ b = Refusal THEN FALSE
    ELSE IF a = Refusal THEN FALSE
    ELSE IF b = Refusal THEN TRUE
    ELSE a < b
NValue_le(a, b) == NValue_lt(a, b) \/ NValue_eq(a, b)
NValue_gt(a, b) == ~NValue_le(a, b)
NValue_ge(a, b) == ~NValue_lt(a, b)

RECURSIVE NValue_min_from(_, _, _)
NValue_min_from(values, i, best) ==
    IF i > Len(values) THEN best
    ELSE NValue_min_from(values, i + 1, IF NValue_lt(values[i], best) THEN values[i] ELSE best)
NValue_min(values) == NValue_min_from(values, 2, values[1])

RECURSIVE NValue_max_from(_, _, _)
NValue_max_from(values, i, best) ==
    IF i > Len(values) THEN best
    ELSE NValue_max_from(values, i + 1, IF NValue_gt(values[i], best) THEN values[i] ELSE best)
NValue_max(values) == NValue_max_from(values, 2, values[1])

\* ----------------------------------------------------------- SPTBlow, SPTExp
SPTBlow(depth, n) ==
    [ thickness |-> None, depth |-> depth, n |-> n, n60 |-> None, n90 |-> None ]

\* 1.5 as a factor over FloatDen
OneAndHalf == (3 * FloatDen) \div 2

SPTBlow_apply_energy_correction(blow, energy_correction_factor) ==
    IF blow.n # None
      THEN LET n60 == NValue_mul_by_f64(blow.n, energy_correction_factor)
           IN  [blow EXCEPT !.n60 = n60, !.n90 = NValue_mul_by_f64(n60, OneAndHalf)]
      ELSE blow

SPTExp_new(blows, name) == [ blows |-> blows, name |-> name ]

SPTExp_apply_energy_correction(exp, energy_correction_factor) ==
    [exp EXCEPT !.blows =
        [k \in 1..Len(exp.blows) |->
            SPTBlow_apply_energy_correction(exp.blows[k], energy_correction_factor)]]

RECURSIVE SPTExp_calc_thicknesses_loop(_, _, _)
SPTExp_calc_thicknesses_loop(blows, k, prev_depth) ==
    IF k > Len(blows) THEN blows
    ELSE IF blows[k].depth # None
      THEN SPTExp_calc_thicknesses_loop(
               [blows EXCEPT ![k].thickness = blows[k].depth - prev_depth],
               k + 1, blows[k].depth)
    ELSE SPTExp_calc_thicknesses_loop(blows, k + 1, prev_depth)

SPTExp_calc_thicknesses(exp) ==
    [exp EXCEPT !.blows = SPTExp_calc_thicknesses_loop(exp.blows, 1, 0)]

\* ----------------------------------------------------------------------- SPT
SPT_add_exp(es, exp) == Append(es, exp)

SPT_apply_energy_correction(es, energy_correction_factor) ==
    [i \in 1..Len(es) |-> SPTExp_apply_energy_correction(es[i], energy_correction_factor)]

RECURSIVE SPT_concat_blows(_)
SPT_concat_blows(es) ==
    IF es = <<>> THEN <<>> ELSE Head(es).blows \o SPT_concat_blows(Tail(es))

RECURSIVE SPT_depth_map(_, _, _)
SPT_depth_map(blows, i, depth_map) ==
    IF i > Len(blows) THEN depth_map
    ELSE IF blows[i].depth # None /\ blows[i].n # None
      THEN SPT_depth_map(blows, i + 1, depth_map_append(depth_map, blows[i].depth, blows[i].n))
    ELSE SPT_depth_map(blows, i + 1, depth_map)

RECURSIVE SPT_sum_val(_)
SPT_sum_val(n_values) ==
    IF n_values = <<>> THEN 0
    ELSE NValue_to_option(Head(n_values)) + SPT_sum_val(Tail(n_values))

\* the average cut to its integer part, without the step up at one half
SPT_avg_val_truncated(n_values) == SPT_sum_val(n_values) \div Len(n_values)

\* int(avg_float), plus one when the fraction of avg_float is at least one half;
\* int() truncates towards zero and a negative avg_float has no such fraction
SPT_avg_val(n_values) ==
    LET sum_val == SPT_sum_val(n_values)
        count == Len(n_values)
    IN  IF sum_val >= 0
          THEN (IF 2 * (sum_val % count) >= count
                  THEN (sum_val \div count) + 1
                  ELSE sum_val \div count)
          ELSE 0 - ((0 - sum_val) \div count)

SPT_selected_n(n_values, mode) ==
    IF mode = "Min" THEN NValue_min(n_values)
    ELSE IF mode = "Max" THEN NValue_max(n_values)
    ELSE SPT_avg_val(n_values)

\* NValue.from_i32 refuses a value that is not positive
SPT_get_idealized_exp(es, mode, name) ==
    LET depth_map == SPT_depth_map(SPT_concat_blows(es), 1, <<>>)
        refused == /\ mode = "Avg"
                   /\ \E j \in 1..Len(depth_map) : SPT_avg_val(depth_map[j].values) <= 0
    IN  IF refused THEN [raised |-> TRUE, value |-> None]
        ELSE [raised |-> FALSE,
              value |-> SPTExp_new([j \in 1..Len(depth_map) |->
                                      SPTBlow(depth_map[j].depth,
                                              SPT_selected_n(depth_map[j].values, mode))], name)]

\* ------------------------------------------------------------- PointLoadTest
PointLoadTest_add_borehole(es, exp) == Append(es, exp)

RECURSIVE PointLoadTest_concat_samples(_)
PointLoadTest_concat_samples(es) ==
    IF es = <<>> THEN <<>> ELSE Head(es).samples \o PointLoadTest_concat_samples(Tail(es))

RECURSIVE PointLoadTest_depth_map(_, _, _)
PointLoadTest_depth_map(samples, i, depth_map) ==
    IF i > Len(samples) THEN depth_map
    ELSE IF samples[i].depth # None /\ samples[i].is50 # None /\ samples[i].d # None
      THEN PointLoadTest_depth_map(samples, i + 1,
               depth_map_append(depth_map, samples[i].depth, <<samples[i].is50, samples[i].d>>))
    ELSE PointLoadTest_depth_map(samples, i + 1, depth_map)

\* min(pairs, key = first) and max(pairs, key = first)
RECURSIVE pair_min_from(_, _, _)
pair_min_from(pairs, i, best) ==
    IF i > Len(pairs) THEN best
    ELSE pair_min_from(pairs, i + 1, IF pairs[i][1] < best[1] THEN pairs[i] ELSE best)

RECURSIVE pair_max_from(_, _, _)
pair_max_from(pairs, i, best) ==
    IF i > Len(pairs) THEN best
    ELSE pair_max_from(pairs, i + 1, IF pairs[i][1] > best[1] THEN pairs[i] ELSE best)

PointLoadTest_selected(is50_d_pairs, mode) ==
    IF mode = "Min" THEN pair_min_from(is50_d_pairs, 2, is50_d_pairs[1])
    ELSE IF mode = "Max" THEN pair_max_from(is50_d_pairs, 2, is50_d_pairs[1])
    ELSE LET sum_is50 == py_sum([k \in 1..Len(is50_d_pairs) |-> is50_d_pairs[k][1]])
             sum_d == py_sum([k \in 1..Len(is50_d_pairs) |-> is50_d_pairs[k][2]])
             count == Len(is50_d_pairs)
         IN  <<sum_is50 \div count, sum_d \div count>>

PointLoadTest_get_idealized_exp(es, mode, name) ==
    IF es = <<>> THEN PointLoadExp_new(name, <<>>)
    ELSE LET depth_map == PointLoadTest_depth_map(PointLoadTest_concat_samples(es), 1, <<>>)
         IN  PointLoadExp_new(name,
                 [j \in 1..Len(depth_map) |->
                    LET selected == PointLoadTest_selected(depth_map[j].values, mode)
                    IN  PointLoadSample_new(depth_map[j].depth, selected[1], selected[2])])

\* ---------------------------------------------------------------------- Masw
\* Thicknesses are an even number of length units, so that the midpoint of two
\* layer bottoms, (top + bottom) / 2.0, is a whole number of units.
MaswLayer_new(thickness, vs, vp) == MaswLayer(thickness, vs, vp, None)

\* MaswExp.calc_depths: the layers before the one that is refused keep their new
\* depth
RECURSIVE MaswExp_calc_depths_loop(_, _, _)
MaswExp_calc_depths_loop(ls, i, bottom) ==
    IF i > Len(ls) THEN [layers |-> ls, raised |-> FALSE]
    ELSE IF ls[i].thickness = None THEN [layers |-> ls, raised |-> TRUE]
    ELSE IF ls[i].thickness <= 0 THEN [layers |-> ls, raised |-> TRUE]
    ELSE MaswExp_calc_depths_loop([ls EXCEPT ![i].depth = bottom + ls[i].thickness],
                                  i + 1, bottom + ls[i].thickness)

MaswExp_calc_depths(exp) ==
    LET done == MaswExp_calc_depths_loop(exp.layers, 1, 0)
    IN  [exp |-> [exp EXCEPT !.layers = done.layers], raised |-> done.raised]

MaswExp_new(ls, name) == MaswExp_calc_depths([layers |-> ls, name |-> name])

Masw_add_exp(es, exp) == Append(es, exp)

\* Masw.calc_depths: an experiment that refuses stops the loop, the experiments
\* after it are left as they were
RECURSIVE Masw_calc_depths_loop(_, _)
Masw_calc_depths_loop(es, e) ==
    IF e > Len(es) THEN [exps |-> es, raised |-> FALSE]
    ELSE LET done == MaswExp_calc_depths(es[e])
         IN  IF done.raised THEN [exps |-> [es EXCEPT ![e] = done.exp], raised |-> TRUE]
             ELSE Masw_calc_depths_loop([es EXCEPT ![e] = done.exp], e + 1)

Masw_calc_depths(es) == Masw_calc_depths_loop(es, 1)

Masw_get_mode_value(values, mode) ==
    IF values = <<>> THEN 0
    ELSE IF mode = "Min" THEN py_min(values)
    ELSE IF mode = "Avg" THEN py_sum(values) \div Len(values)
    ELSE py_max(values)

Masw_unique_depths(es) ==
    {0} \cup
    (UNION { { es[e].layers[i].depth : i \in 1..Len(es[e].layers) } : e \in 1..Len(es) }
        \ {None})

\* Masw.get_idealized_exp sampling each interval at its top instead of its
\* midpoint
Masw_layer_between_top(es, top, bottom, mode) ==
    LET selected == [e \in 1..Len(es) |-> MaswExp_get_layer_at_depth(es[e], top)]
        vs_at_depth == SelectSeq([e \in 1..Len(es) |-> selected[e].vs], NotNone)
        vp_at_depth == SelectSeq([e \in 1..Len(es) |-> selected[e].vp], NotNone)
    IN  MaswLayer_new(bottom - top,
                      Masw_get_mode_value(vs_at_depth, mode),
                      Masw_get_mode_value(vp_at_depth, mode))

Masw_layer_between(es, top, bottom, mode) ==
    LET selected == [e \in 1..Len(es) |->
                        MaswExp_get_layer_at_depth(es[e], (top + bottom) \div 2)]
        vs_at_depth == SelectSeq([e \in 1..Len(es) |-> selected[e].vs], NotNone)
        vp_at_depth == SelectSeq([e \in 1..Len(es) |-> selected[e].vp], NotNone)
    IN  MaswLayer_new(bottom - top,
                      Masw_get_mode_value(vs_at_depth, mode),
                      Masw_get_mode_value(vp_at_depth, mode))

\* the result, what was raised, and the source experiments as the call leaves them
Masw_get_idealized_exp(es, mode, name) ==
    IF es = <<>>
      THEN [raised |-> FALSE, value |-> MaswExp_new(<<>>, name).exp, exps |-> es]
    ELSE LET calc == Masw_calc_depths(es)
             sorted_depths == py_sorted(Masw_unique_depths(calc.exps))
             made == MaswExp_new([i \in 1..(Len(sorted_depths) - 1) |->
                                    Masw_layer_between(calc.exps, sorted_depths[i],
                                                       sorted_depths[i + 1], mode)], name)
         IN  IF calc.raised THEN [raised |-> TRUE, value |-> None, exps |-> calc.exps]
             ELSE [raised |-> made.raised,
                   value |-> IF made.raised THEN None ELSE made.exp,
                   exps |-> calc.exps]

\* --------------------------------------------- a collection and its idealization
\* Every experiment lists its records by increasing depth; two experiments need
\* not share depths, nor does a later experiment start below an earlier one.
SelectionMethod == {"Min", "Avg", "Max"}

CPTLayersAt ==
    [d \in RecordDepths |->
       CASE d = 1 -> { CPTLayer_new(d, Whole(10), Whole(1), Whole(5)),
                       CPTLayer_new(d, Whole(20), None, Whole(7)) }
         [] d = 2 -> { CPTLayer_new(d, Whole(30), Whole(2), None),
                       CPTLayer_new(d, None, Whole(3), Whole(6)) }
         [] OTHER -> { CPTLayer_new(d, Whole(20), Whole(4), None),
                       CPTLayer_new(d, Whole(40), None, None) }]

SPTBlowsAt ==
    [d \in RecordDepths |->
       CASE d = 1 -> { SPTBlow(d, 15), SPTBlow(d, Refusal) }
         [] d = 2 -> { SPTBlow(d, 13), SPTBlow(d, None) }
         [] OTHER -> { SPTBlow(d, 4), SPTBlow(d, 0) }]

PointLoadSamplesAt ==
    [d \in RecordDepths |->
       CASE d = 1 -> { PointLoadSample_new(d, Whole(2), Whole(50)),
                       PointLoadSample_new(d, Whole(2), Whole(54)) }
         [] d = 2 -> { PointLoadSample_new(d, Whole(4), Whole(50)),
                       PointLoadSample_new(d, None, Whole(50)) }
         [] OTHER -> { PointLoadSample_new(d, Whole(3), Whole(50)),
                       PointLoadSample_new(d, Whole(5), None) }]

\* the name asked for the idealized experiment; the sources are all named "Exp"
Names == {"Idealized", "Ideal_Min"}

MaswLayerChoices ==
    { MaswLayer_new(2, Whole(180), Whole(400)),
      MaswLayer_new(4, Whole(200), None) }

InitIdeal ==
    /\ kind \in {"CPT", "SPT", "PointLoadTest", "Masw"}
    /\ exps = <<>>
    /\ idealization_method \in SelectionMethod
    /\ layers = <<>>
    /\ ground_water_level = None
    /\ fresh = TRUE
    /\ op = "new"
    /\ arg = None
    /\ ret = None
    /\ raised = FALSE

AddExp(exp) ==
    /\ Len(exps) < MaxExps
    /\ exps' = CASE kind = "CPT" -> CPT_add_exp(exps, exp)
                 [] kind = "SPT" -> SPT_add_exp(exps, exp)
                 [] kind = "PointLoadTest" -> PointLoadTest_add_borehole(exps, exp)
                 [] kind = "Masw" -> Masw_add_exp(exps, exp)
    /\ op' = "add_exp"
    /\ arg' = None
    /\ ret' = None
    /\ raised' = FALSE
    /\ UNCHANGED <<profileVars, kind, idealization_method>>

CPTAddExp ==
    /\ kind = "CPT"
    /\ \E ls \in IncreasingSeqs(CPTLayersAt, MaxRecs, 0) : AddExp(CPTExp_new(ls, "Exp"))

SPTAddExp ==
    /\ kind = "SPT"
    /\ \E blows \in IncreasingSeqs(SPTBlowsAt, MaxRecs, 0) : AddExp(SPTExp_new(blows, "Exp"))

PointLoadTestAddBorehole ==
    /\ kind = "PointLoadTest"
    /\ \E samples \in IncreasingSeqs(PointLoadSamplesAt, MaxRecs, 0) :
          AddExp(PointLoadExp_new("Exp", samples))

CPTGetIdealizedExp ==
    /\ kind = "CPT"
    /\ \E name \in Names :
          /\ ret' = CPT_get_idealized_exp(exps, idealization_method, name)
          /\ arg' = name
    /\ raised' = FALSE
    /\ op' = "get_idealized_exp"
    /\ UNCHANGED <<profileVars, expVars>>

SPTGetIdealizedExp ==
    /\ kind = "SPT"
    /\ \E name \in Names :
          LET result == SPT_get_idealized_exp(exps, idealization_method, name)
          IN  /\ ret' = result.value
              /\ raised' = result.raised
              /\ arg' = name
    /\ op' = "get_idealized_exp"
    /\ UNCHANGED <<profileVars, expVars>>

PointLoadTestGetIdealizedExp ==
    /\ kind = "PointLoadTest"
    /\ \E name \in Names :
          /\ ret' = PointLoadTest_get_idealized_exp(exps, idealization_method, name)
          /\ arg' = name
    /\ raised' = FALSE
    /\ op' = "get_idealized_exp"
    /\ UNCHANGED <<profileVars, expVars>>

MaswAddExp ==
    /\ kind = "Masw"
    /\ \E ls \in SeqsUpTo(MaswLayerChoices, MaxRecs) : AddExp(MaswExp_new(ls, "Exp").exp)

\* an experiment built by the model constructor, MaswExp(layers=..., name=...):
\* no depth has been computed
MaswExp_init(ls, name) == [layers |-> ls, name |-> name]

MaswAddConstructedExp ==
    /\ kind = "Masw"
    /\ \E ls \in SeqsUpTo(MaswLayerChoices, MaxRecs) : AddExp(MaswExp_init(ls, "Exp"))

MaswGetIdealizedExp ==
    /\ kind = "Masw"
    /\ \E name \in Names :
          LET result == Masw_get_idealized_exp(exps, idealization_method, name)
          IN  /\ ret' = result.value
              /\ raised' = result.raised
              /\ exps' = result.exps
              /\ arg' = name
    /\ op' = "get_idealized_exp"
    /\ UNCHANGED <<profileVars, kind, idealization_method>>

NextIdeal ==
    \/ CPTAddExp
    \/ SPTAddExp
    \/ PointLoadTestAddBorehole
    \/ CPTGetIdealizedExp
    \/ SPTGetIdealizedExp
    \/ PointLoadTestGetIdealizedExp
    \/ MaswAddExp
    \/ MaswAddConstructedExp
    \/ MaswGetIdealizedExp

SpecIdeal == InitIdeal /\ [][NextIdeal]_vars

\* ========================================================== NValue arithmetic
\* An NValue in hand (ret) and the operations on it; each operation returns a
\* new NValue, which later operations may take up while it stays within MaxN.
MaxN == 12

NValues == {Refusal} \cup ((0 - 2)..MaxN)
Floats == (0 - 2)..(2 * FloatDen + 2)

\* operands of a comparison: the values in hand and two around Refusal's to_i32
CompareValues == NValues \cup {50, 51}

\* the last operation returned an NValue that is still small enough to go on with
InHand ==
    /\ op \in {"NValue", "__init__", "from_i32", "mul_by_f64", "add_f64", "sum_with"}
    /\ ~raised
    /\ ret \in NValues

Tokens ==
    { StrToken(text) : text \in {"R", "r", "x", "5"} }
        \cup { IntToken(value) : value \in (0 - 2)..MaxN }

InitNValue ==
    /\ kind = "NValue"
    /\ ret \in NValues
    /\ op = "NValue"
    /\ arg = None
    /\ raised = FALSE
    /\ exps = <<>>
    /\ idealization_method = "Avg"
    /\ layers = <<>>
    /\ ground_water_level = None
    /\ fresh = TRUE

NValueMulByF64 ==
    /\ InHand
    /\ \E factor \in Floats :
          /\ ret' = NValue_mul_by_f64(ret, factor)
          /\ arg' = [self |-> ret, other |-> factor]
    /\ op' = "mul_by_f64"
    /\ raised' = FALSE
    /\ UNCHANGED <<profileVars, expVars>>

NValueAddF64 ==
    /\ InHand
    /\ \E other \in Floats :
          /\ ret' = NValue_add_f64(ret, other)
          /\ arg' = [self |-> ret, other |-> other]
    /\ op' = "add_f64"
    /\ raised' = FALSE
    /\ UNCHANGED <<profileVars, expVars>>

NValueSumWith ==
    /\ InHand
    /\ \E other \in NValues :
          /\ ret' = NValue_sum_with(ret, other)
          /\ arg' = [self |-> ret, other |-> other]
    /\ op' = "sum_with"
    /\ raised' = FALSE
    /\ UNCHANGED <<profileVars, expVars>>

NValueCompare ==
    /\ InHand
    /\ \E other \in CompareValues :
          /\ ret' = [lt |-> NValue_lt(ret, other),
                     le |-> NValue_le(ret, other),
                     gt |-> NValue_gt(ret, other),
                     ge |-> NValue_ge(ret, other),
                     eq |-> NValue_eq(ret, other)]
          /\ arg' = [self |-> ret, other |-> other]
    /\ op' = "compare"
    /\ raised' = FALSE
    /\ UNCHANGED <<profileVars, expVars>>

\* to_i32 assigns nothing: the receiver recorded in arg is the NValue after the
\* call as well
NValueToI32 ==
    /\ InHand
    /\ ret' = NValue_to_i32(ret)
    /\ arg' = [self |-> ret, other |-> None]
    /\ op' = "to_i32"
    /\ raised' = FALSE
    /\ UNCHANGED <<profileVars, expVars>>

NValueInit ==
    /\ kind = "NValue"
    /\ \E token \in Tokens :
          /\ ret' = NValue_init(token).value
          /\ raised' = NValue_init(token).raised
          /\ arg' = token
    /\ op' = "__init__"
    /\ UNCHANGED <<profileVars, expVars>>

NValueFromI32 ==
    /\ kind = "NValue"
    /\ \E n \in (0 - 2)..MaxN :
          /\ ret' = NValue_from_i32(n).value
          /\ raised' = NValue_from_i32(n).raised
          /\ arg' = IntToken(n)
    /\ op' = "from_i32"
    /\ UNCHANGED <<profileVars, expVars>>

NextNValue ==
    \/ NValueMulByF64
    \/ NValueAddF64
    \/ NValueSumWith
    \/ NValueCompare
    \/ NValueToI32
    \/ NValueInit
    \/ NValueFromI32

SpecNValue == InitNValue /\ [][NextNValue]_vars

\* ========================================================= object identity
\* Which object each record of an idealized experiment is: <<0, k>> is the k-th
\* object built by the call, <<i, j>> the j-th record of the i-th source
\* experiment.  An assignment to a field of an object is seen through every
\* list that holds the object.
constructed(k) == <<0, k>>

\* the contributing blow itself where a depth has only one
SPT_idealized_origins_reusing(es, idealized) ==
    [k \in 1..Len(idealized.blows) |->
        LET at == { <<i, j>> \in (1..Len(es)) \X (1..MaxRecs) :
                       /\ j <= Len(es[i].blows)
                       /\ es[i].blows[j].depth = idealized.blows[k].depth
                       /\ es[i].blows[j].n # None }
        IN  IF Cardinality(at) = 1 THEN CHOOSE o \in at : TRUE ELSE constructed(k)]

SPT_idealized_origins(es, idealized) ==
    [k \in 1..Len(idealized.blows) |-> constructed(k)]

Masw_idealized_origins(es, idealized) ==
    [k \in 1..Len(idealized.layers) |-> constructed(k)]

\* the source experiments after the objects of the idealized records were
\* assigned to
write_through(field, es, origins, recs) ==
    [i \in 1..Len(es) |->
        [es[i] EXCEPT ![field] =
            [j \in 1..Len(es[i][field]) |->
                LET held == { k \in 1..Len(origins) : origins[k] = <<i, j>> }
                IN  IF held = {} THEN es[i][field][j]
                    ELSE recs[CHOOSE k \in held : TRUE]]]]

\* the idealized experiment after the objects of the source records were
\* assigned to
read_through(field, exp, origins, es) ==
    [exp EXCEPT ![field] =
        [k \in 1..Len(exp[field]) |->
            IF origins[k][1] = 0 THEN exp[field][k]
            ELSE es[origins[k][1]][field][origins[k][2]]]]

EnergyFactors == {3}
Building == {"new", "add_exp"}

InitAlias ==
    /\ kind \in {"SPT", "Masw"}
    /\ exps = <<>>
    /\ idealization_method \in SelectionMethod
    /\ layers = <<>>
    /\ ground_water_level = None
    /\ fresh = TRUE
    /\ op = "new"
    /\ arg = None
    /\ ret = None
    /\ raised = FALSE

AliasAddExp ==
    /\ op \in Building
    /\ (SPTAddExp \/ MaswAddExp)

\* arg keeps the origins and what the call returned and left behind
AliasSPTGetIdealizedExp ==
    /\ op \in Building
    /\ kind = "SPT"
    /\ LET result == SPT_get_idealized_exp(exps, idealization_method, "Idealized")
       IN  /\ ret' = result.value
           /\ raised' = result.raised
           /\ arg' = [ origins |-> IF result.raised THEN <<>>
                                    ELSE SPT_idealized_origins(exps, result.value),
                        exps |-> exps,
                        ret |-> result.value ]
    /\ op' = "get_idealized_exp"
    /\ UNCHANGED <<profileVars, expVars>>

AliasMaswGetIdealizedExp ==
    /\ op \in Building
    /\ kind = "Masw"
    /\ LET result == Masw_get_idealized_exp(exps, idealization_method, "Idealized")
       IN  /\ ret' = result.value
           /\ raised' = result.raised
           /\ exps' = result.exps
           /\ arg' = [ origins |-> IF result.raised THEN <<>>
                                    ELSE Masw_idealized_origins(result.exps, result.value),
                        exps |-> result.exps,
                        ret |-> result.value ]
    /\ op' = "get_idealized_exp"
    /\ UNCHANGED <<profileVars, kind, idealization_method>>

Returned_idealized == op = "get_idealized_exp" /\ ~raised

IdealizedCalcThicknesses ==
    /\ Returned_idealized
    /\ kind = "SPT"
    /\ LET done == SPTExp_calc_thicknesses(ret)
       IN  /\ ret' = done
           /\ exps' = write_through("blows", exps, arg.origins, done.blows)
    /\ op' = "idealized.calc_thicknesses"
    /\ UNCHANGED <<profileVars, kind, idealization_method, arg, raised>>

IdealizedApplyEnergyCorrection ==
    /\ Returned_idealized
    /\ kind = "SPT"
    /\ \E f \in EnergyFactors :
          LET done == SPTExp_apply_energy_correction(ret, f)
          IN  /\ ret' = done
              /\ exps' = write_through("blows", exps, arg.origins, done.blows)
    /\ op' = "idealized.apply_energy_correction"
    /\ UNCHANGED <<profileVars, kind, idealization_method, arg, raised>>

\* a thickness is assigned to a layer of the idealized experiment, then
\* calc_depths is called on it
IdealizedSetThickness ==
    /\ Returned_idealized
    /\ kind = "Masw"
    /\ \E k \in 1..Len(ret.layers) : \E t \in Thicknesses :
          LET done == [ret EXCEPT !.layers[k].thickness = t]
          IN  /\ ret' = done
              /\ exps' = write_through("layers", exps, arg.origins, done.layers)
    /\ op' = "idealized.thickness"
    /\ UNCHANGED <<profileVars, kind, idealization_method, arg, raised>>

IdealizedCalcDepths ==
    /\ op \in {"get_idealized_exp", "idealized.thickness"}
    /\ ~raised
    /\ kind = "Masw"
    /\ LET done == MaswExp_calc_depths(ret)
       IN  /\ ret' = done.exp
           /\ raised' = done.raised
           /\ exps' = write_through("layers", exps, arg.origins, done.exp.layers)
    /\ op' = "idealized.calc_depths"
    /\ UNCHANGED <<profileVars, kind, idealization_method, arg>>

SourceCalcThicknesses ==
    /\ Returned_idealized
    /\ kind = "SPT"
    /\ \E i \in 1..Len(exps) :
          LET done == [exps EXCEPT ![i] = SPTExp_calc_thicknesses(exps[i])]
          IN  /\ exps' = done
              /\ ret' = read_through("blows", ret, arg.origins, done)
    /\ op' = "source.calc_thicknesses"
    /\ UNCHANGED <<profileVars, kind, idealization_method, arg, raised>>

SourceApplyEnergyCorrection ==
    /\ Returned_idealized
    /\ kind = "SPT"
    /\ \E f \in EnergyFactors :
          LET done == SPT_apply_energy_correction(exps, f)
          IN  /\ exps' = done
              /\ ret' = read_through("blows", ret, arg.origins, done)
    /\ op' = "source.apply_energy_correction"
    /\ UNCHANGED <<profileVars, kind, idealization_method, arg, raised>>

SourceSetThickness ==
    /\ Returned_idealized
    /\ kind = "Masw"
    /\ \E i \in 1..Len(exps) : \E j \in 1..MaxRecs : \E t \in Thicknesses :
          /\ j <= Len(exps[i].layers)
          /\ LET done == [exps EXCEPT ![i].layers[j].thickness = t]
             IN  /\ exps' = done
                 /\ ret' = read_through("layers", ret, arg.origins, done)
    /\ op' = "source.thickness"
    /\ UNCHANGED <<profileVars, kind, idealization_method, arg, raised>>

SourceCalcDepths ==
    /\ op \in {"get_idealized_exp", "source.thickness"}
    /\ ~raised
    /\ kind = "Masw"
    /\ LET done == Masw_calc_depths(exps)
       IN  /\ exps' = done.exps
           /\ raised' = done.raised
           /\ ret' = read_through("layers", ret, arg.origins, done.exps)
    /\ op' = "source.calc_depths"
    /\ UNCHANGED <<profileVars, kind, idealization_method, arg>>

NextAlias ==
    \/ AliasAddExp
    \/ AliasSPTGetIdealizedExp
    \/ AliasMaswGetIdealizedExp
    \/ IdealizedCalcThicknesses
    \/ IdealizedApplyEnergyCorrection
    \/ IdealizedSetThickness
    \/ IdealizedCalcDepths
    \/ SourceCalcThicknesses
    \/ SourceApplyEnergyCorrection
    \/ SourceSetThickness
    \/ SourceCalcDepths

SpecAlias == InitAlias /\ [][NextAlias]_vars

\* ================================================================== interp1d
\* The interpolated value is kept as the exact fraction num / den, den > 0; a
\* value returned from y_values has den = 1.  Rounding of the float operations
\* is not part of the model.
MaxKnots == 3

XValues == {1, 2, 4}
YValues == {10, 20, 45}
XQueries == 0..5

RECURSIVE SortedSeqs(_, _, _)
SortedSeqs(S, n, least) ==
    IF n = 0 THEN { <<>> }
    ELSE { <<>> } \cup
         UNION { { <<v>> \o rest : rest \in SortedSeqs(S, n - 1, v) }
                 : v \in { w \in S : w >= least } }

Returned(num, den) == [error |-> "", num |-> num, den |-> den]
Raised(error) == [error |-> error, num |-> None, den |-> None]

\* the interval loop returning y0, without interpolating
RECURSIVE interp1d_scan_step(_, _, _, _)
interp1d_scan_step(x_arr, y_arr, x, i) ==
    IF i > Len(x_arr) - 1 THEN Raised("ValueError")
    ELSE IF x_arr[i] <= x /\ x <= x_arr[i + 1] THEN Returned(y_arr[i], 1)
    ELSE interp1d_scan_step(x_arr, y_arr, x, i + 1)

RECURSIVE interp1d_scan(_, _, _, _)
interp1d_scan(x_arr, y_arr, x, i) ==
    IF i > Len(x_arr) - 1 THEN Raised("ValueError")
    ELSE LET x0 == x_arr[i]
             x1 == x_arr[i + 1]
             y0 == y_arr[i]
             y1 == y_arr[i + 1]
         IN  IF x0 <= x /\ x <= x1
               THEN (IF x1 - x0 = 0 THEN Raised("ZeroDivisionError")
                     ELSE Returned(y0 * (x1 - x0) + (y1 - y0) * (x - x0), x1 - x0))
               ELSE interp1d_scan(x_arr, y_arr, x, i + 1)

interp1d(x_values, y_values, x) ==
    IF Len(x_values) # Len(y_values) THEN Raised("ValueError")
    ELSE IF x_values = <<>> THEN Raised("ValueError")
    ELSE IF x <= x_values[1] THEN Returned(y_values[1], 1)
    ELSE IF x >= x_values[Len(x_values)] THEN Returned(y_values[Len(y_values)], 1)
    ELSE interp1d_scan(x_values, y_values, x, 1)

InitInterp ==
    /\ kind = "helper"
    /\ op = "new"
    /\ \E x_values \in SortedSeqs(XValues, MaxKnots, 0) :
       \E y_values \in SeqsUpTo(YValues, MaxKnots) :
       \E x \in XQueries :
          arg = [x_values |-> x_values, y_values |-> y_values, x |-> x]
    /\ ret = None
    /\ raised = FALSE
    /\ exps = <<>>
    /\ idealization_method = "Avg"
    /\ layers = <<>>
    /\ ground_water_level = None
    /\ fresh = TRUE

Interp1d ==
    /\ kind = "helper"
    /\ op = "new"
    /\ ret' = interp1d(arg.x_values, arg.y_values, arg.x)
    /\ raised' = (interp1d(arg.x_values, arg.y_values, arg.x).error # "")
    /\ op' = "interp1d"
    /\ UNCHANGED <<arg, profileVars, expVars>>

NextInterp == Interp1d

SpecInterp == InitInterp /\ [][NextInterp]_vars

\* =================================================================== claims
Max(a, b) == IF a >= b THEN a ELSE b
Min(a, b) == IF a <= b THEN a ELSE b

RECURSIVE SumThickness(_, _)
SumThickness(ls, i) == IF i = 0 THEN 0 ELSE SumThickness(ls, i - 1) + ls[i].thickness

\* C1: after construction with a non-empty layer list and after every
\* calc_layer_depths call that returns, whatever thickness edits came before,
\* depth_i = thickness_0 + ... + thickness_i and center_i = depth_i - thickness_i/2.
C1_DepthsAreCumulative ==
    (fresh /\ Len(layers) > 0) =>
        \A i \in 1..Len(layers) :
            /\ layers[i].depth = SumThickness(layers, i)
            /\ 2 * layers[i].center = 2 * layers[i].depth - layers[i].thickness

C1_Witness ==
    /\ op = "calc_layer_depths" /\ ~raised /\ fresh
    /\ Len(layers) >= 2
    /\ layers[1].thickness # layers[2].thickness

\* The part of layer i (1-based) that lies between the surface and depth d, on a
\* profile with fresh depths: the layer spans [depth - thickness, depth], and the
\* last layer is taken to reach down to d when d lies below the profile.
LayerTop(ls, i) == ls[i].depth - ls[i].thickness
LayerBottom(ls, i, d) == IF i = Len(ls) THEN Max(ls[i].depth, d) ELSE ls[i].depth
PartAbove(ls, i, d, level) ==
    Max(0, Min(Min(LayerBottom(ls, i, d), d), level) - LayerTop(ls, i))
RECURSIVE OverburdenSum(_, _, _, _)
OverburdenSum(ls, gwt, d, i) ==
    IF i = 0 THEN 0
    ELSE LET whole == PartAbove(ls, i, d, d)
             dry_part == PartAbove(ls, i, d, gwt)
         IN  OverburdenSum(ls, gwt, d, i - 1)
             + OrZero(ls[i].dry_unit_weight) * dry_part
             + OrZero(ls[i].saturated_unit_weight) * (whole - dry_part)

\* C2: on a profile with fresh depths, for every ground water level and every
\* query depth d >= 0, the value calc_normal_stress(d) returns is the sum over the
\* layers of dry weight x the layer's part above the water table plus saturated
\* weight x its part below, counted from the surface down to d.
C2_NormalStressIsOverburden ==
    (op = "calc_normal_stress" /\ fresh /\ ~raised /\ arg >= 0) =>
        ret = OverburdenSum(layers, ground_water_level, arg, Len(layers))

C2_Witness ==
    /\ op = "calc_normal_stress" /\ fresh /\ ~raised
    /\ Len(layers) = 2
    /\ ground_water_level > layers[1].depth
    /\ ground_water_level < arg
    /\ arg < layers[2].depth
    /\ ret > 0

\* C3: calc_effective_stress(d) is calc_normal_stress(d) when d <= ground water
\* level, and calc_normal_stress(d) - (d - ground water level) x 0.981 when d is
\* deeper; it raises exactly when calc_normal_stress(d) does.
C3_EffectiveStress ==
    op = "calc_effective_stress" =>
        LET normal == calc_normal_stress(layers, ground_water_level, arg)
        IN  /\ raised = normal.raised
            /\ ~raised =>
                  ret = IF arg <= ground_water_level THEN normal.value
                        ELSE normal.value - (arg - ground_water_level) * WaterUnitWeight

C3_Witness ==
    /\ op = "calc_effective_stress" /\ ~raised
    /\ ground_water_level > 0
    /\ arg > ground_water_level
    /\ ret > 0

\* C4 as stated: for every profile with non-negative unit weights and any two
\* depths d1 <= d2 on which calc_normal_stress returns, the stress at d1 is at
\* most the stress at d2.
C4_MonotoneEveryProfile ==
    (op = "calc_normal_stress" /\ ~raised) =>
        \A d2 \in QueryDepths :
            LET deeper == calc_normal_stress(layers, ground_water_level, d2)
            IN  (arg <= d2 /\ ~deeper.raised) => ret <= deeper.value

\* C4 as amended: the same on a profile with fresh depths and 0 <= d1 <= d2.
C4_MonotoneFresh ==
    (op = "calc_normal_stress" /\ ~raised /\ fresh /\ arg >= 0) =>
        \A d2 \in QueryDepths :
            LET deeper == calc_normal_stress(layers, ground_water_level, d2)
            IN  (arg <= d2 /\ ~deeper.raised) => ret <= deeper.value

C4_Witness ==
    /\ op = "calc_normal_stress" /\ ~raised /\ fresh
    /\ Len(layers) = 2
    /\ arg > 0 /\ arg < layers[1].depth
    /\ arg < ground_water_level /\ ground_water_level < MaxDepth
    /\ layers[1].depth < MaxDepth
    /\ ~calc_normal_stress(layers, ground_water_level, MaxDepth).raised
    /\ ret < calc_normal_stress(layers, ground_water_level, MaxDepth).value

\* a layer whose dry and saturated unit weights are both <= 1.0, unset counting as 0
BothWeightsLow(layer) ==
    /\ OrZero(layer.dry_unit_weight) <= WeightOne
    /\ OrZero(layer.saturated_unit_weight) <= WeightOne

\* C5 as stated: calc_normal_stress(d) raises for every d whenever the ground
\* water level is unset and whenever some layer of the profile has both unit
\* weights <= 1.0.
C5_RaisesOnAnyLowLayer ==
    op = "calc_normal_stress" =>
        ((ground_water_level = None \/ \E i \in 1..Len(layers) : BothWeightsLow(layers[i]))
            => raised)

\* C5 as amended: it raises whenever the ground water level is unset and whenever
\* one of the layers it walks through (index <= get_layer_index(d)) has both unit
\* weights <= 1.0; a ground water level that is set, 0.0 included, with every
\* walked layer sound and every thickness set, does not raise.
C5_RaisesOnWalkedLowLayer ==
    op = "calc_normal_stress" =>
        LET walked == { i \in 1..Len(layers) : i - 1 <= get_layer_index(layers, arg) }
        IN  /\ ground_water_level = None => raised
            /\ (\E i \in walked : BothWeightsLow(layers[i])) => raised
            /\ ( /\ ground_water_level # None
                 /\ \A i \in walked : ~BothWeightsLow(layers[i]) /\ layers[i].thickness # None )
               => ~raised

C5_Witness ==
    /\ op = "calc_normal_stress" /\ raised
    /\ ground_water_level = 0
    /\ Len(layers) = 2
    /\ ~BothWeightsLow(layers[1])
    /\ BothWeightsLow(layers[2])

\* the smallest 0-based index whose layer depth is >= d, the last index when none
FirstLayerReaching(ls, d) ==
    LET reaching == { i \in 0..(Len(ls) - 1) : ls[i + 1].depth >= d }
    IN  IF reaching = {} THEN Len(ls) - 1
        ELSE CHOOSE i \in reaching : \A j \in reaching : i <= j

\* C6: on a non-empty profile with fresh depths, get_layer_index(d) returns the
\* smallest index i with layers[i].depth >= d, the last index when there is none,
\* and get_layer_at_depth(d) returns the layer at that index.
C6_LayerIndexIsFirstReaching ==
    (fresh /\ Len(layers) > 0) =>
        /\ op = "get_layer_index" => (~raised /\ ret = FirstLayerReaching(layers, arg))
        /\ op = "get_layer_at_depth" =>
              (~raised /\ ret = layers[FirstLayerReaching(layers, arg) + 1])

C6_Witness ==
    /\ fresh /\ Len(layers) = 2
    /\ op = "get_layer_index"
    /\ arg = layers[1].depth
    /\ ret = 0

\* C7: on a profile whose layer list is empty, get_layer_index(d) raises instead
\* of returning an index, and so do calc_normal_stress and calc_effective_stress.
C7_EmptyProfileRaises ==
    (Len(layers) = 0
     /\ op \in {"get_layer_index", "calc_normal_stress", "calc_effective_stress"})
        => raised

\* ---------------------------------------------------------------------------
\* the record a depth lookup is expected to return, stated without the scan
LookupExpected(records, depth, default) ==
    LET reaching == { i \in 1..Len(records) :
                        records[i].depth # None /\ records[i].depth >= depth }
    IN  IF records = <<>> THEN default
        ELSE IF reaching = {} THEN records[Len(records)]
        ELSE records[CHOOSE i \in reaching : \A j \in reaching : i <= j]

\* C8: CPTExp.get_layer_at_depth, MaswExp.get_layer_at_depth and
\* PointLoadExp.get_sample_at_depth return the first record in stored order
\* whose depth is >= the query depth, the last record when no record reaches
\* the query, and a default record without a depth when the container is
\* empty; none of them raises.
C8_LookupFirstReachingElseLast ==
    /\ (kind = "CPTExp" /\ op = "get_layer_at_depth") =>
          /\ ~raised
          /\ ret = LookupExpected(exps[1].layers, arg, CPTLayer_default)
          /\ exps[1].layers = <<>> => ret.depth = None
    /\ (kind = "MaswExp" /\ op = "get_layer_at_depth") =>
          /\ ~raised
          /\ ret = LookupExpected(exps[1].layers, arg, MaswLayer_default)
          /\ exps[1].layers = <<>> => ret.depth = None
    /\ (kind = "PointLoadExp" /\ op = "get_sample_at_depth") =>
          /\ ~raised
          /\ ret = LookupExpected(exps[1].samples, arg, PointLoadSample_default)
          /\ exps[1].samples = <<>> => ret.depth = None

C8_Witness ==
    /\ kind = "CPTExp"
    /\ op = "get_layer_at_depth"
    /\ Len(exps[1].layers) = 2
    /\ exps[1].layers[1].depth = None
    /\ exps[1].layers[2].depth # None
    /\ exps[1].layers[2].depth < arg
    /\ ret = exps[1].layers[2]

\* ---------------------------------------------------------------------------
SourceRecords(exp) ==
    CASE kind = "CPT" -> exp.layers
      [] kind = "SPT" -> exp.blows
      [] kind = "PointLoadTest" -> exp.samples

SourceDepths ==
    UNION { { SourceRecords(exps[e])[i].depth : i \in 1..Len(SourceRecords(exps[e])) }
            : e \in 1..Len(exps) } \ {None}

StrictlyAscending(records) ==
    \A i \in 1..Len(records) : \A j \in 1..Len(records) :
        i < j => records[i].depth < records[j].depth

\* C9: for SPT, CPT and Point-Load collections the records of
\* get_idealized_exp carry exactly the distinct depths of the source records,
\* each once, in strictly ascending order.
C9_IdealizedDepthsSortedUnion ==
    (kind \in {"CPT", "SPT", "PointLoadTest"} /\ op = "get_idealized_exp" /\ ~raised) =>
        LET records == SourceRecords(ret)
        IN  /\ StrictlyAscending(records)
            /\ { records[i].depth : i \in 1..Len(records) } = SourceDepths

\* ---------------------------------------------------------------------------
Channel(layer, channel) ==
    CASE channel = "cone_resistance" -> layer.cone_resistance
      [] channel = "sleeve_friction" -> layer.sleeve_friction
      [] channel = "pore_pressure" -> layer.pore_pressure

Channels == {"cone_resistance", "sleeve_friction", "pore_pressure"}

\* the value experiment e supplies for a channel at depth d, None when the
\* record its lookup selects lacks the channel
Supplied(e, d, channel) ==
    Channel(LookupExpected(exps[e].layers, d, CPTLayer_default), channel)

Suppliers(d, channel) == { e \in 1..Len(exps) : Supplied(e, d, channel) # None }

RECURSIVE SumSupplied(_, _, _)
SumSupplied(S, d, channel) ==
    IF S = {} THEN 0
    ELSE LET e == CHOOSE x \in S : TRUE
         IN  Supplied(e, d, channel) + SumSupplied(S \ {e}, d, channel)

ReducedAsRuled(value, d, channel) ==
    LET S == Suppliers(d, channel)
    IN  IF S = {} THEN value = 0
        ELSE CASE idealization_method = "Min" ->
                    /\ \E e \in S : value = Supplied(e, d, channel)
                    /\ \A e \in S : value <= Supplied(e, d, channel)
               [] idealization_method = "Max" ->
                    /\ \E e \in S : value = Supplied(e, d, channel)
                    /\ \A e \in S : value >= Supplied(e, d, channel)
               [] idealization_method = "Avg" ->
                    value * Cardinality(S) = SumSupplied(S, d, channel)

\* C10: CPT.get_idealized_exp has one record per union depth d, and each of its
\* channels is the minimum, maximum or arithmetic mean (by the collection's
\* selection rule) of the channel values of the records get_layer_at_depth(d)
\* selects in the source experiments, the experiments whose selected record
\* lacks the channel left out; it is 0.0 when no experiment supplies it.
C10_CPTChannelsReduced ==
    (kind = "CPT" /\ op = "get_idealized_exp") =>
        /\ ~raised
        /\ { ret.layers[k].depth : k \in 1..Len(ret.layers) } = SourceDepths
        /\ \A k \in 1..Len(ret.layers) : \A channel \in Channels :
              ReducedAsRuled(Channel(ret.layers[k], channel), ret.layers[k].depth, channel)

C10_Witness ==
    /\ kind = "CPT"
    /\ op = "get_idealized_exp"
    /\ idealization_method = "Avg"
    /\ Len(exps) = 2
    /\ \E k \in 1..Len(ret.layers) :
          /\ Suppliers(ret.layers[k].depth, "cone_resistance") = {1, 2}
          /\ Supplied(1, ret.layers[k].depth, "cone_resistance")
                # Supplied(2, ret.layers[k].depth, "cone_resistance")
          /\ Cardinality(Suppliers(ret.layers[k].depth, "sleeve_friction")) = 1
          /\ ret.layers[k].sleeve_friction > 0
          /\ Suppliers(ret.layers[k].depth, "pore_pressure") = {}
          /\ ret.layers[k].pore_pressure = 0

\* ---------------------------------------------------------------------------
\* a reduction stated without min, max and sum over lists: supplied maps the
\* experiments that supply a value to that value
RECURSIVE SumOf(_, _)
SumOf(supplied, S) ==
    IF S = {} THEN 0
    ELSE LET e == CHOOSE x \in S : TRUE
         IN  supplied[e] + SumOf(supplied, S \ {e})

ReducedOver(value, supplied) ==
    LET S == DOMAIN supplied
    IN  IF S = {} THEN value = 0
        ELSE CASE idealization_method = "Min" ->
                    /\ \E e \in S : value = supplied[e]
                    /\ \A e \in S : value <= supplied[e]
               [] idealization_method = "Max" ->
                    /\ \E e \in S : value = supplied[e]
                    /\ \A e \in S : value >= supplied[e]
               [] idealization_method = "Avg" ->
                    value * Cardinality(S) = SumOf(supplied, S)

\* bottom of layer i of a MASW experiment: the sum of the thicknesses down to it
RECURSIVE MaswBottom(_, _)
MaswBottom(ls, i) == IF i = 0 THEN 0 ELSE MaswBottom(ls, i - 1) + ls[i].thickness

MaswU ==
    {0} \cup UNION { { MaswBottom(exps[e].layers, i) : i \in 1..Len(exps[e].layers) }
                     : e \in 1..Len(exps) }

\* the layer experiment e holds at the midpoint of (top, bottom): the first whose
\* bottom is at or below the midpoint, the last layer when none is
MaswAtMidpoint(e, top, bottom) ==
    LET ls == exps[e].layers
        reaching == { i \in 1..Len(ls) : 2 * MaswBottom(ls, i) >= top + bottom }
    IN  IF ls = <<>> THEN MaswLayer_default
        ELSE IF reaching = {} THEN ls[Len(ls)]
        ELSE ls[CHOOSE i \in reaching : \A j \in reaching : i <= j]

MaswVs(top, bottom) ==
    [e \in { x \in 1..Len(exps) : MaswAtMidpoint(x, top, bottom).vs # None } |->
        MaswAtMidpoint(e, top, bottom).vs]

MaswVp(top, bottom) ==
    [e \in { x \in 1..Len(exps) : MaswAtMidpoint(x, top, bottom).vp # None } |->
        MaswAtMidpoint(e, top, bottom).vp]

RECURSIVE MaswThicknessSum(_)
MaswThicknessSum(ls) ==
    IF ls = <<>> THEN 0 ELSE Head(ls).thickness + MaswThicknessSum(Tail(ls))

\* C11: Masw.get_idealized_exp, with U the set {0} united with all source layer
\* bottoms, returns one layer per consecutive pair of U, in order: its bottom
\* depth is the upper element, its thickness the (positive) difference of the
\* pair, its Vs and Vp the MIN/AVG/MAX reduction of the layers that
\* get_layer_at_depth(midpoint) selects in each experiment; the output
\* thicknesses sum to the deepest source depth.
C11_MaswIntervals ==
    (kind = "Masw" /\ op = "get_idealized_exp" /\ ~raised /\ exps # <<>>) =>
        /\ Len(ret.layers) = Cardinality(MaswU) - 1
        /\ \A k \in 1..Len(ret.layers) :
              LET bottom == ret.layers[k].depth
                  below == { u \in MaswU : u < bottom }
                  top == CHOOSE u \in below : \A v \in below : v <= u
              IN  /\ bottom \in MaswU
                  /\ Cardinality(below) = k
                  /\ ret.layers[k].thickness = bottom - top
                  /\ ret.layers[k].thickness > 0
                  /\ ReducedOver(ret.layers[k].vs, MaswVs(top, bottom))
                  /\ ReducedOver(ret.layers[k].vp, MaswVp(top, bottom))
        /\ MaswThicknessSum(ret.layers) = CHOOSE u \in MaswU : \A v \in MaswU : v <= u

C11_Witness ==
    /\ kind = "Masw"
    /\ op = "get_idealized_exp"
    /\ ~raised
    /\ idealization_method = "Avg"
    /\ Len(exps) = 2
    /\ Len(ret.layers) >= 3
    /\ \E k \in 1..Len(ret.layers) :
          /\ ret.layers[k].vs > 0
          /\ \A e \in 1..Len(exps) : \A i \in 1..Len(exps[e].layers) :
                exps[e].layers[i].vs # ret.layers[k].vs

\* ---------------------------------------------------------------------------
\* the blows that count at depth d: those recorded at exactly d that carry an n,
\* named by experiment and position
SPTContributors(d) ==
    { p \in (1..Len(exps)) \X (1..MaxRecs) :
        /\ p[2] <= Len(exps[p[1]].blows)
        /\ exps[p[1]].blows[p[2]].depth = d
        /\ exps[p[1]].blows[p[2]].n # None }

SPTContributed(d) == [p \in SPTContributors(d) |-> exps[p[1]].blows[p[2]].n]

\* Refusal counts as 50 in a sum
SPTContributedI32(d) ==
    [p \in SPTContributors(d) |->
        IF SPTContributed(d)[p] = Refusal THEN 50 ELSE SPTContributed(d)[p]]

\* v is the mean sum / count rounded to the nearest integer, halves upwards
HalfUpMean(v, sum, count) ==
    /\ count * (2 * v - 1) <= 2 * sum
    /\ 2 * sum < count * (2 * v + 1)

\* a is at most b in the NValue order: Refusal is above every finite value
NValueAtMost(a, b) == b = Refusal \/ (a # Refusal /\ a <= b)

SPTReducedAtDepth(n, d) ==
    LET given == SPTContributed(d)
        P == DOMAIN given
    IN  /\ P # {}
        /\ CASE idealization_method = "Min" ->
                  /\ \E p \in P : n = given[p]
                  /\ \A p \in P : NValueAtMost(n, given[p])
                  /\ n = Refusal <=> \A p \in P : given[p] = Refusal
             [] idealization_method = "Max" ->
                  /\ \E p \in P : n = given[p]
                  /\ \A p \in P : NValueAtMost(given[p], n)
                  /\ n = Refusal <=> \E p \in P : given[p] = Refusal
             [] idealization_method = "Avg" ->
                  HalfUpMean(n, SumOf(SPTContributedI32(d), P), Cardinality(P))

\* the samples that count at depth d: those recorded at exactly d that carry
\* both is50 and d
PointLoadContributors(d) ==
    { p \in (1..Len(exps)) \X (1..MaxRecs) :
        /\ p[2] <= Len(exps[p[1]].samples)
        /\ exps[p[1]].samples[p[2]].depth = d
        /\ exps[p[1]].samples[p[2]].is50 # None
        /\ exps[p[1]].samples[p[2]].d # None }

PointLoadIs50(d) == [p \in PointLoadContributors(d) |-> exps[p[1]].samples[p[2]].is50]
PointLoadD(d) == [p \in PointLoadContributors(d) |-> exps[p[1]].samples[p[2]].d]

PointLoadReducedAtDepth(sample, d) ==
    /\ PointLoadContributors(d) # {}
    /\ ReducedOver(sample.is50, PointLoadIs50(d))
    /\ IF idealization_method = "Avg"
         THEN ReducedOver(sample.d, PointLoadD(d))
         ELSE \E p \in PointLoadContributors(d) :
                 /\ PointLoadIs50(d)[p] = sample.is50
                 /\ PointLoadD(d)[p] = sample.d

\* C12: SPT.get_idealized_exp and PointLoadTest.get_idealized_exp reduce, at
\* each output depth d, over the records recorded at exactly depth d and no
\* others; for SPT, MIN and MAX follow the NValue order: MAX is Refusal as soon
\* as one contributing value is, MIN only when all are.
C12_ReducedAtExactDepth ==
    /\ (kind = "SPT" /\ op = "get_idealized_exp" /\ ~raised) =>
          \A k \in 1..Len(ret.blows) :
              SPTReducedAtDepth(ret.blows[k].n, ret.blows[k].depth)
    /\ (kind = "PointLoadTest" /\ op = "get_idealized_exp" /\ ~raised) =>
          \A k \in 1..Len(ret.samples) :
              PointLoadReducedAtDepth(ret.samples[k], ret.samples[k].depth)

\* an experiment without a blow at the output depth holds a deeper blow with a
\* smaller n, which the minimum does not take up
C12_Witness ==
    /\ kind = "SPT"
    /\ op = "get_idealized_exp"
    /\ ~raised
    /\ idealization_method = "Min"
    /\ \E k \in 1..Len(ret.blows) : \E e \in 1..Len(exps) :
          /\ \A i \in 1..Len(exps[e].blows) : exps[e].blows[i].depth # ret.blows[k].depth
          /\ \E i \in 1..Len(exps[e].blows) :
                /\ exps[e].blows[i].depth > ret.blows[k].depth
                /\ exps[e].blows[i].n # None
                /\ exps[e].blows[i].n < ret.blows[k].n

\* ---------------------------------------------------------------------------
\* the Point-Load experiments of the collection as CPT experiments: every sample
\* a layer of the same depth with its is50 as cone resistance
SamplesAsCPTLayers(exp) ==
    CPTExp_new([i \in 1..Len(exp.samples) |->
                  CPTLayer_new(exp.samples[i].depth, exp.samples[i].is50, None, None)],
               exp.borehole_id)

ExpsAsCPT == [e \in 1..Len(exps) |-> SamplesAsCPTLayers(exps[e])]

FullyPopulated ==
    \A e \in 1..Len(exps) : \A i \in 1..Len(exps[e].samples) :
        /\ exps[e].samples[i].depth # None
        /\ exps[e].samples[i].is50 # None
        /\ exps[e].samples[i].d # None

\* C13: on the same experiments (same depths, one fully populated channel, same
\* selection rule) CPT.get_idealized_exp and PointLoadTest.get_idealized_exp
\* return the same sequence of depths and the same reduced value at every depth.
C13_CPTAndPointLoadAgree ==
    (kind = "PointLoadTest" /\ op = "get_idealized_exp" /\ ~raised /\ FullyPopulated) =>
        LET cpt == CPT_get_idealized_exp(ExpsAsCPT, idealization_method, "Idealized")
        IN  /\ Len(cpt.layers) = Len(ret.samples)
            /\ \A k \in 1..Len(ret.samples) :
                  /\ cpt.layers[k].depth = ret.samples[k].depth
                  /\ cpt.layers[k].cone_resistance = ret.samples[k].is50

\* ---------------------------------------------------------------------------
RecordsOf(exp) ==
    CASE kind = "CPT" -> exp.layers
      [] kind = "Masw" -> exp.layers
      [] kind = "SPT" -> exp.blows
      [] kind = "PointLoadTest" -> exp.samples

\* the two records agree in depth and in every channel of their kind
SameRecord(a, b) ==
    /\ a.depth = b.depth
    /\ CASE kind = "CPT" -> /\ a.cone_resistance = b.cone_resistance
                            /\ a.sleeve_friction = b.sleeve_friction
                            /\ a.pore_pressure = b.pore_pressure
         [] kind = "Masw" -> /\ a.thickness = b.thickness
                             /\ a.vs = b.vs
                             /\ a.vp = b.vp
         [] kind = "SPT" -> a.n = b.n
         [] kind = "PointLoadTest" -> /\ a.is50 = b.is50
                                      /\ a.d = b.d

SameRecords(a, b) ==
    /\ Len(a) = Len(b)
    /\ \A k \in 1..Len(a) : SameRecord(a[k], b[k])

\* C14: with exactly one experiment in the collection (depths strictly
\* increasing), get_idealized_exp under MIN, AVG and MAX returns that experiment's
\* records: same depths in the same order, every channel unchanged (a Refusal
\* stays Refusal, an absent channel stays absent), no record dropped.
C14_SingleExperimentIdentity ==
    (kind \in {"CPT", "SPT", "PointLoadTest", "Masw"}
        /\ op = "get_idealized_exp" /\ Len(exps) = 1) =>
        /\ ~raised
        /\ SameRecords(RecordsOf(ret), RecordsOf(exps[1]))

\* ---------------------------------------------------------------------------
ListOrders(n) ==
    { f \in [1..n -> 1..n] : \A a \in 1..n : \A b \in 1..n : f[a] = f[b] => a = b }

Permuted(es, f) == [e \in 1..Len(es) |-> es[f[e]]]

\* what get_idealized_exp returns on the collection's kind for the experiment
\* list es: whether it raised, and the records of the result
Idealized(es) ==
    CASE kind = "CPT" ->
           [raised |-> FALSE,
            records |-> CPT_get_idealized_exp(es, idealization_method, "Idealized").layers]
      [] kind = "PointLoadTest" ->
           [raised |-> FALSE,
            records |-> PointLoadTest_get_idealized_exp(es, idealization_method, "Idealized").samples]
      [] kind = "SPT" ->
           LET result == SPT_get_idealized_exp(es, idealization_method, "Idealized")
           IN  [raised |-> result.raised,
                records |-> IF result.raised THEN <<>> ELSE result.value.blows]
      [] kind = "Masw" ->
           LET result == Masw_get_idealized_exp(es, idealization_method, "Idealized")
           IN  [raised |-> result.raised,
                records |-> IF result.raised THEN <<>> ELSE result.value.layers]

\* C15: for SPT, CPT, MASW and Point-Load and each selection rule,
\* get_idealized_exp returns the same sequence of records (depths, order,
\* channel values, the diameter that accompanies a Point-Load is50) for every
\* permutation of the collection's experiment list.
C15_PermutationInvariant ==
    (kind \in {"CPT", "SPT", "PointLoadTest", "Masw"} /\ op = "get_idealized_exp") =>
        \A f \in ListOrders(Len(exps)) :
            Idealized(Permuted(exps, f)) = Idealized(exps)

\* ---------------------------------------------------------------------------
\* C16: for SPT, CPT, MASW and Point-Load, get_idealized_exp(name) on a
\* collection without experiments returns, without raising, an experiment that
\* has the given name and no records.
C16_EmptyCollection ==
    (kind \in {"CPT", "SPT", "PointLoadTest", "Masw"}
        /\ op = "get_idealized_exp" /\ exps = <<>>) =>
        /\ ~raised
        /\ RecordsOf(ret) = <<>>
        /\ IF kind = "PointLoadTest" THEN ret.borehole_id = arg ELSE ret.name = arg

C16_Witness ==
    /\ kind = "SPT"
    /\ op = "get_idealized_exp"
    /\ exps = <<>>
    /\ ~raised
    /\ ret.name = "Ideal_Min"
    /\ ret.blows = <<>>

\* ---------------------------------------------------------------------------
ChannelsOf ==
    CASE kind = "CPT" -> {"cone_resistance", "sleeve_friction", "pore_pressure"}
      [] kind = "Masw" -> {"vs", "vp"}
      [] kind = "PointLoadTest" -> {"is50", "d"}

ChannelOf(record, channel) ==
    CASE channel = "cone_resistance" -> record.cone_resistance
      [] channel = "sleeve_friction" -> record.sleeve_friction
      [] channel = "pore_pressure" -> record.pore_pressure
      [] channel = "vs" -> record.vs
      [] channel = "vp" -> record.vp
      [] channel = "is50" -> record.is50
      [] channel = "d" -> record.d

\* the value v of a source record has entered the reduction that gave out
EnteredReduction(v, out) ==
    /\ idealization_method = "Min" => out <= v
    /\ idealization_method = "Max" => out >= v
    /\ (idealization_method = "Avg" /\ Len(exps) = 1) => out = v

\* C17: in CPT, MASW and Point-Load idealization a source record that lacks a
\* channel is left out of that channel's reduction only: its depth still
\* appears in the output and its other channels enter their reductions there.
C17_MissingChannelOnly ==
    (kind \in {"CPT", "Masw", "PointLoadTest"} /\ op = "get_idealized_exp" /\ ~raised) =>
        \A e \in 1..Len(exps) : \A i \in 1..Len(RecordsOf(exps[e])) :
            LET record == RecordsOf(exps[e])[i]
            IN  (\E channel \in ChannelsOf : ChannelOf(record, channel) = None) =>
                    \E k \in 1..Len(RecordsOf(ret)) :
                        /\ RecordsOf(ret)[k].depth = record.depth
                        /\ \A channel \in ChannelsOf :
                              ChannelOf(record, channel) # None =>
                                  EnteredReduction(ChannelOf(record, channel),
                                                   ChannelOf(RecordsOf(ret)[k], channel))

\* ---------------------------------------------------------------------------
\* floor(num / den + 0.5), den > 0: the nearest integer, halves upwards
RoundHalfUp(num, den) == (2 * num + den) \div (2 * den)

\* C18: for every finite NValue n, mul_by_f64(f) returns the integer nearest to
\* n x f and add_f64(x) the integer nearest to n + x, exact halves rounded up.
C18_RoundsHalfUp ==
    /\ (op = "mul_by_f64" /\ arg.self # Refusal) =>
          ret = RoundHalfUp(arg.self * arg.other, FloatDen)
    /\ (op = "add_f64" /\ arg.self # Refusal) =>
          ret = RoundHalfUp(arg.self * FloatDen + arg.other, FloatDen)

\* ---------------------------------------------------------------------------
\* C19: SPT.get_idealized_exp under AVG: at each depth the selected N is the
\* arithmetic mean of the contributing N values, a Refusal counted as 50,
\* rounded to the nearest integer with halves rounded up, and it is a finite
\* NValue, never Refusal.
C19_AvgRoundsHalfUp ==
    (kind = "SPT" /\ op = "get_idealized_exp" /\ idealization_method = "Avg" /\ ~raised) =>
        \A k \in 1..Len(ret.blows) :
            LET d == ret.blows[k].depth
                P == SPTContributors(d)
            IN  /\ P # {}
                /\ ret.blows[k].n # Refusal
                /\ ret.blows[k].n # None
                /\ ret.blows[k].n = RoundHalfUp(SumOf(SPTContributedI32(d), P), Cardinality(P))

\* a Refusal and a 15 at one depth: (50 + 15) / 2 = 32.5 gives 33
C19_Witness ==
    /\ kind = "SPT"
    /\ op = "get_idealized_exp"
    /\ idealization_method = "Avg"
    /\ ~raised
    /\ \E k \in 1..Len(ret.blows) :
          LET given == SPTContributed(ret.blows[k].depth)
          IN  /\ \E p \in DOMAIN given : given[p] = Refusal
              /\ \E p \in DOMAIN given : given[p] = 15
              /\ Cardinality(DOMAIN given) = 2
              /\ ret.blows[k].n = 33

\* C20: Refusal is absorbing for NValue arithmetic: mul_by_f64 and add_f64 on
\* Refusal return Refusal for every argument, sum_with returns Refusal when
\* either operand is Refusal, and for two finite operands their exact integer
\* sum, so that sum_with is commutative.
C20_RefusalAbsorbing ==
    /\ (op \in {"mul_by_f64", "add_f64"} /\ arg.self = Refusal) => ret = Refusal
    /\ op = "sum_with" =>
          /\ (arg.self = Refusal \/ arg.other = Refusal) => ret = Refusal
          /\ (arg.self # Refusal /\ arg.other # Refusal) =>
                /\ ret # Refusal
                /\ ret = arg.self + arg.other
          /\ ret = NValue_sum_with(arg.other, arg.self)

C20_Witness ==
    /\ op = "sum_with"
    /\ arg.self # Refusal
    /\ arg.self > 0
    /\ arg.other = Refusal
    /\ ret = Refusal

\* ---------------------------------------------------------------------------
\* C21: <, <=, >, >=, == on NValue form a total order in which Refusal is above
\* every finite value and equal to itself, and finite values compare as
\* integers: exactly one of a < b, a == b, a > b holds, a <= b iff (a < b or
\* a == b), a >= b iff not a < b, and the order is transitive.
C21_TotalOrder ==
    op = "compare" =>
        LET a == arg.self
            b == arg.other
        IN  /\ (a = Refusal /\ b = Refusal) => (ret.eq /\ ~ret.lt /\ ~ret.gt)
            /\ (a # Refusal /\ b = Refusal) => (ret.lt /\ ~ret.eq /\ ~ret.gt)
            /\ (a = Refusal /\ b # Refusal) => (ret.gt /\ ~ret.eq /\ ~ret.lt)
            /\ (a # Refusal /\ b # Refusal) =>
                  /\ ret.lt <=> a < b
                  /\ ret.eq <=> a = b
                  /\ ret.gt <=> a > b
            /\ Cardinality({ x \in {"lt", "eq", "gt"} : ret[x] }) = 1
            /\ ret.le <=> (ret.lt \/ ret.eq)
            /\ ret.ge <=> ~ret.lt
            /\ \A c \in CompareValues :
                  /\ (ret.lt /\ NValue_lt(b, c)) => NValue_lt(a, c)
                  /\ (ret.le /\ NValue_le(b, c)) => NValue_le(a, c)

\* a finite value above 50 is still below Refusal
C21_Witness ==
    /\ op = "compare"
    /\ arg.self = Refusal
    /\ arg.other = 51
    /\ ret.gt
    /\ ret.ge
    /\ ~ret.le

\* ---------------------------------------------------------------------------
\* C22: to_i32 returns 50 for Refusal and n for every finite NValue n, 0
\* included; the NValue it is called on is left as it was.
C22_ToI32 ==
    op = "to_i32" =>
        /\ ~raised
        /\ arg.self = Refusal => ret = 50
        /\ arg.self # Refusal => ret = arg.self

C22_Witness ==
    /\ op = "to_i32"
    /\ arg.self = Refusal
    /\ ret = 50

\* ---------------------------------------------------------------------------
\* C23: NValue construction: the token "R" in either case yields Refusal, a
\* token that denotes a non-negative integer (0 included) yields that finite
\* value, every other token, a negative integer in particular, fails; so no
\* NValue ever holds a negative count.
C23_Construction ==
    op \in {"__init__", "from_i32"} =>
        /\ (arg.is_str /\ arg.text \in {"R", "r"}) => (~raised /\ ret = Refusal)
        /\ (~arg.is_str /\ arg.value >= 0) => (~raised /\ ret = arg.value)
        /\ (~arg.is_str /\ arg.value < 0) => raised
        /\ (arg.is_str /\ arg.text = "x") => raised
        /\ ~raised => ret >= 0

\* ---------------------------------------------------------------------------
\* the returned value is the whole number y
ReturnsValue(y) == ret.error = "" /\ ret.num = y * ret.den

StrictlyAscendingXs(xs) == \A i \in 1..(Len(xs) - 1) : xs[i] < xs[i + 1]

\* the first interval that holds x
FirstInterval(xs, x) ==
    LET holding == { i \in 1..(Len(xs) - 1) : xs[i] <= x /\ x <= xs[i + 1] }
    IN  CHOOSE i \in holding : \A j \in holding : i <= j

IdealizedMutations ==
    { "idealized.calc_thicknesses", "idealized.apply_energy_correction",
      "idealized.thickness", "idealized.calc_depths" }

SourceMutations ==
    { "source.calc_thicknesses", "source.apply_energy_correction",
      "source.thickness", "source.calc_depths" }

C26_PureRead ==
    [][ op' = "get_idealized_exp" =>
           /\ exps' = exps
           /\ idealization_method' = idealization_method ]_vars

\* ---------------------------------------------------------------------------
\* C27: a failing depth mutator leaves no partial result: when
\* calc_layer_depths raises because some layer's thickness is unset, the depth
\* and center of every layer are what they were before the call.
C27_NoPartialResult ==
    [][ (op' = "calc_layer_depths" /\ raised') => layers' = layers ]_vars

\* ---------------------------------------------------------------------------
\* every blow of every experiment carries a depth and an N value that is
\* Refusal or a non-negative count
BlowsComplete(es) ==
    \A e \in 1..Len(es) : \A j \in 1..Len(es[e].blows) :
        /\ es[e].blows[j].depth # None
        /\ es[e].blows[j].n # None
        /\ (es[e].blows[j].n = Refusal \/ es[e].blows[j].n >= 0)

\* C28: SPT.get_idealized_exp returns an experiment without raising for every
\* collection whose blows carry a depth and an N value that is Refusal or a
\* non-negative integer (0 included), under each of MIN, AVG and MAX.
C28_NeverRaises ==
    (kind = "SPT" /\ op = "get_idealized_exp" /\ BlowsComplete(exps)) => ~raised

\* ---------------------------------------------------------------------------
\* every experiment has strictly increasing positive blow depths
BlowDepthsIncreasing(es) ==
    \A e \in 1..Len(es) : \A j \in 1..Len(es[e].blows) :
        /\ es[e].blows[j].depth # None
        /\ es[e].blows[j].depth > 0
        /\ j > 1 => es[e].blows[j - 1].depth < es[e].blows[j].depth

\* C29: for every SPT collection whose experiments each have strictly
\* increasing positive blow depths, get_idealized_exp followed by
\* calc_thicknesses on the result gives every blow thickness = its depth minus
\* the previous blow's depth (0 for the first), every thickness > 0, and
\* thicknesses that sum to the deepest depth.
C29_ThicknessesOfIdealized ==
    (op = "idealized.calc_thicknesses" /\ BlowDepthsIncreasing(exps)) =>
        LET blows == ret.blows
            n == Len(blows)
        IN  /\ \A k \in 1..n :
                  /\ blows[k].thickness =
                        blows[k].depth - (IF k = 1 THEN 0 ELSE blows[k - 1].depth)
                  /\ blows[k].thickness > 0
            /\ n > 0 =>
                  py_sum([k \in 1..n |-> blows[k].thickness])
                     = py_max([k \in 1..n |-> blows[k].depth])

\* ---------------------------------------------------------------------------
\* C30: for every profile and ground water level >= 0 on which
\* calc_normal_stress(d) succeeds and every depth d >= 0,
\* 0 <= calc_effective_stress(d) <= calc_normal_stress(d).
C30_EffectiveWithinNormal ==
    (op = "calc_effective_stress" /\ ~raised) =>
        ((ground_water_level >= 0 /\ arg >= 0) =>
            /\ 0 <= ret
            /\ ret <= calc_normal_stress(layers, ground_water_level, arg).value)

====
